---- MODULE Spec2Model ----
(***************************************************************************)
(* erastusk/kafka_microservice: a GPS simulator sends JSON coordinate      *)
(* records over a WebSocket to a bridge server, the bridge republishes     *)
(* each record on a Kafka topic, and a consumer process prints the topic.  *)
(*                                                                         *)
(* The repository holds two generations of most files: the documented one  *)
(* and the original one.  The variable `build` selects, once and for all   *)
(* in Init, which generation a run executes; every action that differs     *)
(* between the two branches on it.                                         *)
(*                                                                         *)
(*   Spec          the bridge server: sessions, producers, broker          *)
(*   FairSpec      the same with the fairness Go's scheduler gives         *)
(*   ConsumerSpec  the consumer process (kafka_reader)                     *)
(*   CodecSpec     one record through the encoders and decoders            *)
(*   SimulatorSpec the GPS simulator (producer)                            *)
(*   StartupSpec   the bridge's main: flag parsing and listening           *)
(***************************************************************************)
EXTENDS Integers, Sequences, FiniteSets, TLC

VARIABLES
    build,      \* "documented" | "legacy": which generation of the files runs
    serverUp,   \* the bridge process is alive and serving (main)
    pc,         \* per session: where its handler goroutine stands
    conn,       \* per session: the *websocket.Conn c: "nil" | "open" | "closed"
    peer,       \* per session: the client end: "none" | "open" | "closed"
    sent,       \* per session: the frames the client has written, in order
    nread,      \* per session: how many of them ReadJSON has consumed
    recv,       \* per session: var recv types.SourceCoords (one per loop, reused)
    resp,       \* per session: resp, the bytes json.Marshal returned
    prod,       \* per session: k: "none" | "nil" | "live"
    queue,      \* per session: the producer's queue of undelivered messages
    remaining,  \* per session: what the last Flush returned
    attempts,   \* per session: history of the payloads handed to Produce
    stdout,     \* per session: lines printed about its deliveries, counted by kind
    cpc,        \* consumer: where main/KafkaConsume stands
    lpc,        \* consumer: where the kafkaconsumeLoop goroutine stands
    consumer,   \* consumer: c.Consumer: "none" | "open" | "closed"
    t,          \* consumer: the struct t the loop unmarshals into (reused)
    polls,      \* consumer: number of Poll calls that have returned
    polled,     \* consumer: history of the message payloads Poll returned
    printed,    \* consumer: history of the records KafkaConsume printed
    faults,     \* faults the environment has injected so far
    roundTrip,  \* one record on its way client -> bridge -> topic -> consumer
    simpc,      \* simulator: where its main stands
    simconn,    \* simulator: conn: "nil" | "open" | "broken"
    simt,       \* simulator: t, the record of this iteration
    simsent,    \* simulator: the frames WriteJSON has written, in order
    simerrs,    \* simulator: "Unable to write message" lines logged
    simiters,   \* simulator: iterations of the send loop begun
    args,       \* bridge main: os.Args[1:]
    addr,       \* bridge main: *addr, the value of the flag variable
    mainpc,     \* bridge main: "start" | "parsed" | "serving" | "exited"
    listening   \* bridge main: the address handed to ListenAndServe

bridgeVars == <<serverUp, pc, conn, peer, sent, nread, recv, resp, prod, queue,
                remaining, attempts, stdout>>
consumerVars == <<cpc, lpc, consumer, t, polls, polled, printed>>
codecVars == <<roundTrip>>
simVars == <<simpc, simconn, simt, simsent, simerrs, simiters>>
mainVars == <<args, addr, mainpc, listening>>
\* what the steps of the bridge's sessions leave alone
otherVars == <<consumerVars, codecVars, simVars, mainVars>>
vars == <<build, faults, bridgeVars, consumerVars, codecVars, simVars, mainVars>>

(***************************************************************************)
(* Bounds of the model.                                                    *)
(***************************************************************************)
\* frames all clients together write during a run
MaxFrames == 2
\* Poll calls of the consumer that return during a run
MaxPolls == 3
\* command-line arguments given to the bridge
MaxArgs == 2

\* iterations of the simulator's send loop during a run
MaxSends == 3

\* faults the environment injects during a run: a failed upgrade, a failed
\* producer creation, a transport failure, a Produce error, a failed delivery
MaxFaults == 1

\* A step whose outcome is a fault when b holds, within the budget.
Fault(b) ==
    /\ b => faults < MaxFaults
    /\ faults' = IF b THEN faults + 1 ELSE faults

\* Two connections are enough for every interleaving the claims speak of.
Sessions == {"s1", "s2"}
Builds == {"documented", "legacy"}

(***************************************************************************)
(* types.SourceCoords and its JSON wire form.  A JSON object is the        *)
(* sequence of its members <<key, type, value>>; a frame that is not valid *)
(* JSON has json = "invalid".  Degrees are whole numbers here.             *)
(***************************************************************************)
SourceCoords(o, la, lo) == [OBUID |-> o, Lat |-> la, Lon |-> lo]
ZeroCoords == SourceCoords(0, 0, 0)

Object(members) == [json |-> "object", members |-> members]
Invalid == [json |-> "invalid", members |-> <<>>]

\* an encoder that writes Lon under another key than the decoder reads
MarshalMistagged(v) ==
    Object(<< <<"obuid", "num", v.OBUID>>,
              <<"lat", "num", v.Lat>>,
              <<"long", "num", v.Lon>> >>)

\* json.Marshal(recv): the members in the struct's field order, under the tags.
Marshal(v) ==
    Object(<< <<"obuid", "num", v.OBUID>>,
              <<"lat", "num", v.Lat>>,
              <<"lon", "num", v.Lon>> >>)

\* One member stored into the struct: a known key of the right type sets its
\* field, a known key of the wrong type sets nothing, an unknown key is skipped.
SetField(v, m) ==
    IF m[2] # "num" THEN v
    ELSE IF m[1] = "obuid" THEN [v EXCEPT !.OBUID = m[3]]
    ELSE IF m[1] = "lat" THEN [v EXCEPT !.Lat = m[3]]
    ELSE IF m[1] = "lon" THEN [v EXCEPT !.Lon = m[3]]
    ELSE v

KnownKeys == {"obuid", "lat", "lon"}

RECURSIVE StoreMembers(_, _)
StoreMembers(v, ms) ==
    IF ms = <<>> THEN v
    ELSE StoreMembers(SetField(v, Head(ms)), Tail(ms))

TypeError(ms) ==
    \E i \in 1..Len(ms) : ms[i][1] \in KnownKeys /\ ms[i][2] # "num"

\* json.Unmarshal / Decoder.Decode into an existing struct: a syntax error
\* leaves the struct alone; otherwise every member is stored in turn, fields
\* the document does not mention keep their old values, and a wrongly typed
\* member is reported after the others were stored.
Unmarshal(v, frame) ==
    IF frame.json = "invalid" THEN [err |-> "syntax", val |-> v]
    ELSE [err |-> IF TypeError(frame.members) THEN "type" ELSE "none",
          val |-> StoreMembers(v, frame.members)]

(***************************************************************************)
(* What a client may write on its connection.  The first two are what the  *)
(* bundled simulator writes (WriteJSON of a SourceCoords whose coordinates *)
(* retOBUdata draws from [1, 100)); the others are what any other client   *)
(* of the /ws endpoint may write.                                          *)
(***************************************************************************)
retOBUdata == {SourceCoords(1, 45, 10), SourceCoords(2, 95, 20)}

FramePartial == Object(<< <<"lon", "num", 30>>, <<"lat", "num", 60>> >>)
FrameMistyped ==
    Object(<< <<"obuid", "str", 0>>, <<"lat", "num", 50>>, <<"lon", "num", 40>> >>)

Frames == {Marshal(v) : v \in retOBUdata} \cup {FramePartial, FrameMistyped, Invalid}

(***************************************************************************)
(* The bridge server (data_receiver_kafka_producer).                       *)
(***************************************************************************)
NoOutput == [delivered |-> 0, failed |-> 0, warned |-> 0]

BridgeInit ==
    /\ serverUp = TRUE
    /\ pc = [s \in Sessions |-> "none"]
    /\ conn = [s \in Sessions |-> "nil"]
    /\ peer = [s \in Sessions |-> "none"]
    /\ sent = [s \in Sessions |-> <<>>]
    /\ nread = [s \in Sessions |-> 0]
    /\ recv = [s \in Sessions |-> ZeroCoords]
    /\ resp = [s \in Sessions |-> Invalid]
    /\ prod = [s \in Sessions |-> "none"]
    /\ queue = [s \in Sessions |-> <<>>]
    /\ remaining = [s \in Sessions |-> 0]
    /\ attempts = [s \in Sessions |-> <<>>]
    /\ stdout = [s \in Sessions |-> NoOutput]

ConsumerIdle ==
    /\ cpc = "new"
    /\ lpc = "none"
    /\ consumer = "none"
    /\ t = ZeroCoords
    /\ polls = 0
    /\ polled = <<>>
    /\ printed = <<>>

\* no record is being followed through the pipeline
RoundTripIdle ==
    roundTrip = [pc |-> "idle", rec |-> ZeroCoords, frame |-> Invalid,
                 recv |-> ZeroCoords, resp |-> Invalid, t |-> ZeroCoords,
                 err |-> "none"]

\* the simulator has not been started
SimulatorIdle ==
    /\ simpc = "idle"
    /\ simconn = "nil"
    /\ simt = ZeroCoords
    /\ simsent = <<>>
    /\ simerrs = 0
    /\ simiters = 0

\* var addr = flag.String("addr", "localhost:30000", "http service address")
DefaultAddr == [kind |-> "word", name |-> "localhost:30000", val |-> "localhost:30000"]

\* the bridge was started without arguments and is serving
MainServing ==
    /\ args = <<>>
    /\ addr = DefaultAddr
    /\ mainpc = "serving"
    /\ listening = DefaultAddr

Init ==
    /\ build \in Builds
    /\ BridgeInit
    /\ faults = 0
    /\ ConsumerIdle
    /\ RoundTripIdle
    /\ SimulatorIdle
    /\ MainServing

RECURSIVE SumLen(_, _)
SumLen(f, S) ==
    IF S = {} THEN 0
    ELSE LET x == CHOOSE y \in S : TRUE IN Len(f[x]) + SumLen(f, S \ {x})

FramesWritten == SumLen(sent, Sessions)

\* main: log.Fatal(http.ListenAndServe(*addr, nil)).  ListenAndServe returns
\* when it cannot bind the address; the process then exits.
ListenFail ==
    /\ serverUp
    /\ \A s \in Sessions : pc[s] = "none"
    /\ serverUp' = FALSE
    /\ UNCHANGED <<build, pc, conn, peer, sent, nread, recv, resp, prod, queue,
                   remaining, attempts, stdout, faults, otherVars>>

\* The HTTP server runs ReceiveWs for a request to /ws in a goroutine of its
\* own.  ReceiveWs: upgrader.Upgrade.  On failure c is nil; the documented
\* handler logs and returns, the legacy handler logs and calls
\* ReadMessageLoop(nil).
ReceiveWs(s) ==
    /\ serverUp
    /\ pc[s] = "none"
    /\ \E ok \in BOOLEAN :
        Fault(~ok) /\
        IF ok
        THEN /\ conn' = [conn EXCEPT ![s] = "open"]
             /\ peer' = [peer EXCEPT ![s] = "open"]
             /\ pc' = [pc EXCEPT ![s] = "newprod"]
        ELSE /\ conn' = conn
             /\ peer' = [peer EXCEPT ![s] = "closed"]
             /\ pc' = [pc EXCEPT ![s] =
                         IF build = "documented" THEN "returned" ELSE "newprod"]
    /\ UNCHANGED <<build, serverUp, sent, nread, recv, resp, prod, queue,
                   remaining, attempts, stdout, otherVars>>

\* one recv for the whole package: every session decodes into the same struct
PackageRecv(s) == "s1"

\* var recv types.SourceCoords is declared inside ReadMessageLoop: each call,
\* so each session, has a recv of its own.
RecvOf(s) == s

NoDeferredClose(c) == c

\* defer c.Close(): what a return from (or a panic in) ReadMessageLoop does
\* to the connection.  Close on a nil *Conn panics and closes nothing.
DeferredClose(c) == IF c = "nil" THEN "nil" ELSE "closed"

\* ReadMessageLoop is left, by return ("returned") or by a panic that net/http
\* recovers ("panicked"): the deferred Close runs, which ends the connection
\* for the peer too, and the locals are gone.
Leave(s, how) ==
    /\ pc' = [pc EXCEPT ![s] = how]
    /\ conn' = [conn EXCEPT ![s] = DeferredClose(@)]
    /\ peer' = [peer EXCEPT ![s] = IF DeferredClose(conn[s]) = "closed" THEN "closed" ELSE @]
    /\ recv' = [recv EXCEPT ![RecvOf(s)] = ZeroCoords]
    /\ resp' = [resp EXCEPT ![s] = Invalid]

DiesOnProducerError == FALSE

\* Whether the process outlives a failed NewKafkaProducer: the loop reports
\* it with log.Printf / fmt.Println, which return.
SurvivesProducerError == TRUE

\* ReadMessageLoop, lines up to the loop: k, err := kafka.NewKafkaProducer().
\* NewKafkaProducer starts the delivery-report goroutine with the producer.
\* On failure the documented loop logs and returns (the deferred Close runs);
\* the legacy loop prints the error and goes on with k = nil.
NewKafkaProducer(s) ==
    /\ serverUp
    /\ pc[s] = "newprod"
    /\ \E ok \in BOOLEAN :
        Fault(~ok) /\
        IF ok
        THEN /\ prod' = [prod EXCEPT ![s] = "live"]
             /\ pc' = [pc EXCEPT ![s] = "read"]
             /\ UNCHANGED <<serverUp, conn, peer, recv, resp>>
        ELSE /\ prod' = [prod EXCEPT ![s] = "nil"]
             /\ serverUp' = SurvivesProducerError
             /\ IF build = "documented"
                THEN Leave(s, "returned")
                ELSE /\ pc' = [pc EXCEPT ![s] = "read"]
                     /\ UNCHANGED <<conn, peer, recv, resp>>
    /\ UNCHANGED <<build, sent, nread, queue, remaining, attempts, stdout,
                   otherVars>>

\* The loop's c.ReadJSON(&recv) with a frame waiting: the frame is decoded into
\* the loop's one recv.  On success resp is json.Marshal(recv) and the loop
\* goes on to MiddlewareRead; on any error it logs and breaks.  (Marshal of a
\* decoded SourceCoords cannot fail: JSON carries no NaN or Inf.)
ReadJSON(s) ==
    /\ serverUp
    /\ pc[s] = "read"
    /\ conn[s] = "open"
    /\ nread[s] < Len(sent[s])
    /\ nread' = [nread EXCEPT ![s] = @ + 1]
    /\ LET r == Unmarshal(recv[RecvOf(s)], sent[s][nread[s] + 1])
       IN IF r.err = "none"
          THEN /\ recv' = [recv EXCEPT ![RecvOf(s)] = r.val]
               /\ resp' = [resp EXCEPT ![s] = Marshal(r.val)]
               /\ pc' = [pc EXCEPT ![s] = "produce"]
               /\ UNCHANGED <<conn, peer>>
          ELSE Leave(s, "returned")
    /\ UNCHANGED <<build, serverUp, sent, prod, queue, remaining, attempts,
                   stdout, faults, otherVars>>

\* c.ReadJSON returns the close error: the peer has closed and every frame it
\* wrote before has been read.  The loop logs and breaks.
ReadClose(s) ==
    /\ serverUp
    /\ pc[s] = "read"
    /\ conn[s] = "open"
    /\ peer[s] = "closed"
    /\ nread[s] = Len(sent[s])
    /\ Leave(s, "returned")
    /\ UNCHANGED <<build, serverUp, sent, nread, prod, queue, remaining,
                   attempts, stdout, faults, otherVars>>

\* c.ReadJSON fails on the transport (reset, timeout) while the peer has not
\* closed.  The loop logs and breaks; frames still on the wire are lost.
ReadFail(s) ==
    /\ serverUp
    /\ pc[s] = "read"
    /\ conn[s] = "open"
    /\ peer[s] = "open"
    /\ Fault(TRUE)
    /\ Leave(s, "returned")
    /\ UNCHANGED <<build, serverUp, sent, nread, prod, queue, remaining,
                   attempts, stdout, otherVars>>

\* c.ReadJSON on the nil connection the legacy ReceiveWs passes on: a nil
\* dereference; the deferred c.Close() dereferences nil again.  net/http
\* recovers the panic of a handler goroutine.
ReadNil(s) ==
    /\ serverUp
    /\ pc[s] = "read"
    /\ conn[s] = "nil"
    /\ Leave(s, "panicked")
    /\ UNCHANGED <<build, serverUp, sent, nread, prod, queue, remaining,
                   attempts, stdout, faults, otherVars>>

\* p.Len(): the messages the producer still holds.  Flush waits for 0.
Outstanding(s) == Len(queue[s])

ProduceOvertaking(calls, word) == <<word>> \o calls

\* p.Producer.Produce(&kafka.Message{..., Value: word}, nil): the calls are
\* issued in program order, each after the one before.
Produce(calls, word) == Append(calls, word)

AfterProduceNoFlush == "read"

\* Where KafkaWrite goes after Produce: on to p.Producer.Flush(15 * 1000).
AfterProduce == "flush"

\* MiddlewareRead(resp, k) -> k.KafkaWrite(resp), first half: p.Producer.Produce.
\* Produce either queues the message or returns an error (queue full, ...);
\* KafkaWrite discards that return value.  On the nil k of the legacy loop
\* p.Producer is a nil dereference: a panic, and the deferred c.Close() runs.
KafkaWriteProduce(s) ==
    /\ serverUp
    /\ pc[s] = "produce"
    /\ IF prod[s] = "live"
       THEN /\ \E queued \in BOOLEAN :
                /\ Fault(~queued)
                /\ queue' = [queue EXCEPT ![s] = IF queued THEN Append(@, resp[s]) ELSE @]
            /\ attempts' = [attempts EXCEPT ![s] = Produce(@, resp[s])]
            /\ pc' = [pc EXCEPT ![s] = AfterProduce]
            /\ UNCHANGED <<conn, peer, recv, resp>>
       ELSE /\ Leave(s, "panicked")
            /\ UNCHANGED <<queue, attempts, faults>>
    /\ UNCHANGED <<build, serverUp, sent, nread, prod, remaining, stdout,
                   otherVars>>

\* KafkaWrite, second half: p.Producer.Flush(15 * 1000) returns 0, nothing
\* being outstanding.  KafkaWrite and MiddlewareRead return to the loop.
KafkaWriteFlushed(s) ==
    /\ serverUp
    /\ pc[s] = "flush"
    /\ Outstanding(s) = 0
    /\ remaining' = [remaining EXCEPT ![s] = 0]
    /\ pc' = [pc EXCEPT ![s] = "read"]
    /\ UNCHANGED <<build, serverUp, conn, peer, sent, nread, recv, resp, prod,
                   queue, attempts, stdout, faults, otherVars>>

\* KafkaWrite, second half: the 15 s pass with messages outstanding and Flush
\* returns their number.  The documented KafkaWrite prints a warning, the
\* legacy one drops the number.  Either returns to the loop.
KafkaWriteTimeout(s) ==
    /\ serverUp
    /\ pc[s] = "flush"
    /\ Outstanding(s) > 0
    /\ remaining' = [remaining EXCEPT ![s] = Outstanding(s)]
    /\ stdout' = [stdout EXCEPT ![s].warned =
                     IF build = "documented" THEN @ + 1 ELSE @]
    /\ pc' = [pc EXCEPT ![s] = "read"]
    /\ UNCHANGED <<build, serverUp, conn, peer, sent, nread, recv, resp, prod,
                   queue, attempts, faults, otherVars>>

\* Records of session s handed to a dead-letter sink.  The goroutine's branch
\* for a failed delivery is one fmt.Printf; no line of the program passes a
\* record on to anything else.
DeadLettered(s) == 0

\* The producer delivers in the background, whatever the session does: the
\* oldest queued message is acknowledged by the broker, or fails for good, and
\* its delivery report comes out of p.Events() in the goroutine that
\* NewKafkaProducer started (for e := range p.Events()), which prints it as
\* delivered or as failed.
DeliveryReport(s) ==
    /\ serverUp
    /\ prod[s] = "live"
    /\ queue[s] # <<>>
    /\ \E report \in {"ack", "error"} :
        /\ Fault(report = "error")
        /\ stdout' = [stdout EXCEPT ![s] =
                      IF report = "ack"
                      THEN [@ EXCEPT !.delivered = @ + 1]
                      ELSE [@ EXCEPT !.failed = @ + 1]]
    /\ queue' = [queue EXCEPT ![s] = Tail(@)]
    /\ UNCHANGED <<build, serverUp, pc, conn, peer, sent, nread, recv, resp, prod,
                   remaining, attempts, otherVars>>

\* A client writes one frame on its open connection.
ClientWrite(s) ==
    /\ peer[s] = "open"
    /\ conn[s] = "open"
    /\ FramesWritten < MaxFrames
    /\ \E f \in Frames : sent' = [sent EXCEPT ![s] = Append(@, f)]
    /\ UNCHANGED <<build, serverUp, pc, conn, peer, nread, recv, resp, prod, queue,
                   remaining, attempts, stdout, faults, otherVars>>

\* A client closes its connection.
ClientClose(s) ==
    /\ peer[s] = "open"
    /\ conn[s] = "open"
    /\ peer' = [peer EXCEPT ![s] = "closed"]
    /\ UNCHANGED <<build, serverUp, pc, conn, sent, nread, recv, resp, prod, queue,
                   remaining, attempts, stdout, faults, otherVars>>

\* One step of the handler goroutine of session s, after the upgrade.
ReadMessageLoop(s) ==
    \/ NewKafkaProducer(s)
    \/ ReadJSON(s)
    \/ ReadClose(s)
    \/ ReadFail(s)
    \/ ReadNil(s)
    \/ KafkaWriteProduce(s)
    \/ KafkaWriteFlushed(s)
    \/ KafkaWriteTimeout(s)

Next ==
    \/ ListenFail
    \/ \E s \in Sessions :
        \/ ReceiveWs(s)
        \/ ReadMessageLoop(s)
        \/ DeliveryReport(s)
        \/ ClientWrite(s)
        \/ ClientClose(s)

Spec == Init /\ [][Next]_vars

(***************************************************************************)
(* The bridge with one connection and the fairness the Go runtime gives:   *)
(* the handler goroutine is scheduled, and each of its blocking calls      *)
(* returns once it can (a frame or the close is there to read; Flush       *)
(* returns at the latest after its 15 s).  Nothing obliges a client to     *)
(* write or close, the transport to fail, or the broker to deliver.        *)
(***************************************************************************)
Alone == "s1"

Progress(s) ==
    \/ NewKafkaProducer(s)
    \/ ReadJSON(s)
    \/ ReadClose(s)
    \/ ReadNil(s)
    \/ KafkaWriteProduce(s)
    \/ KafkaWriteFlushed(s)
    \/ KafkaWriteTimeout(s)

NextAlone ==
    \/ ReceiveWs(Alone)
    \/ ReadMessageLoop(Alone)
    \/ DeliveryReport(Alone)
    \/ ClientWrite(Alone)
    \/ ClientClose(Alone)

FairSpec == Init /\ [][NextAlone]_vars /\ WF_vars(Progress(Alone))

(***************************************************************************)
(* The consumer process (kafka_reader): main, KafkaConsume and the         *)
(* kafkaconsumeLoop goroutine.  msgChan is unbuffered and is never closed  *)
(* by any line of the program.                                             *)
(***************************************************************************)
BridgeIdle == UNCHANGED <<build, faults, bridgeVars, codecVars, simVars, mainVars>>

\* What the topic may hold: the payloads the bridge publishes, and whatever
\* another producer (kafka-console-producer, say) wrote there.
TopicMessages == Frames

\* main: c, err := kafka.NewKafkaConsumer().  On failure the legacy
\* NewKafkaConsumer calls log.Fatal; the documented one returns the error
\* and the documented main logs it and returns.  Either way the process ends.
NewKafkaConsumer ==
    /\ cpc = "new"
    /\ \E ok \in BOOLEAN :
        IF ok
        THEN /\ consumer' = "open"
             /\ cpc' = "subscribe"
        ELSE /\ consumer' = consumer
             /\ cpc' = "exited"
    /\ UNCHANGED <<lpc, t, polls, polled, printed>>
    /\ BridgeIdle

\* KafkaConsume: c.Consumer.SubscribeTopics.  On failure the legacy code
\* calls log.Fatal, the documented code returns err to main.  On success:
\* go kafkaconsumeLoop(c), then for a := range c.msgChan.
SubscribeTopics ==
    /\ cpc = "subscribe"
    /\ \E ok \in BOOLEAN :
        IF ok
        THEN /\ cpc' = "range"
             /\ lpc' = "poll"
        ELSE /\ cpc' = IF build = "documented" THEN "returned" ELSE "exited"
             /\ lpc' = lpc
    /\ UNCHANGED <<consumer, t, polls, polled, printed>>
    /\ BridgeIdle

\* a loop that never sends on msgChan
NeverSends(err) == FALSE

\* Whether the loop sends t on msgChan after json.Unmarshal returned err: the
\* documented loop logs and continues with the next Poll; the legacy loop
\* logs and falls through to the send.
SendsAfter(err) == err = "none" \/ build = "legacy"

\* kafkaconsumeLoop: ev := c.Consumer.Poll(100) returns a *kafka.Message, which
\* is unmarshalled into the loop's one t.
PollMessage ==
    /\ cpc = "range"
    /\ lpc = "poll"
    /\ polls < MaxPolls
    /\ \E m \in TopicMessages :
        LET r == Unmarshal(t, m)
        IN /\ t' = r.val
           /\ polled' = Append(polled, m)
           /\ lpc' = IF SendsAfter(r.err) THEN "send" ELSE "poll"
    /\ polls' = polls + 1
    /\ UNCHANGED <<cpc, consumer, printed>>
    /\ BridgeIdle

\* kafkaconsumeLoop: Poll returns nil (nothing within 100 ms) or an event of
\* another type; the loop polls again.
PollNothing ==
    /\ cpc = "range"
    /\ lpc = "poll"
    /\ polls < MaxPolls
    /\ polls' = polls + 1
    /\ UNCHANGED <<cpc, lpc, consumer, t, polled, printed>>
    /\ BridgeIdle

\* a loop that returns without closing the consumer
ConsumerLeftOpen(c) == c

\* defer c.Consumer.Close(): what the return of kafkaconsumeLoop does to the
\* consumer.
ConsumerClose(c) == "closed"

\* kafkaconsumeLoop: Poll returns a kafka.Error: run = false, the loop ends
\* and the deferred c.Consumer.Close() runs.  The goroutine is gone; msgChan
\* is left open.
PollError ==
    /\ cpc = "range"
    /\ lpc = "poll"
    /\ polls < MaxPolls
    /\ polls' = polls + 1
    /\ lpc' = "exited"
    /\ consumer' = ConsumerClose(consumer)
    /\ UNCHANGED <<cpc, t, polled, printed>>
    /\ BridgeIdle

\* c.msgChan <- t meets for a := range c.msgChan: the unbuffered channel hands
\* t over, KafkaConsume prints it, the loop goes back to Poll.
Receive ==
    /\ cpc = "range"
    /\ lpc = "send"
    /\ printed' = Append(printed, t)
    /\ lpc' = "poll"
    /\ UNCHANGED <<cpc, consumer, t, polls, polled>>
    /\ BridgeIdle

\* The Go runtime may find every goroutine asleep once the loop is gone and
\* main waits on msgChan ("fatal error: all goroutines are asleep -
\* deadlock!"), and kill the process; with threads of the C client library
\* about, it may as well not.
GoDeadlock ==
    /\ cpc = "range"
    /\ lpc = "exited"
    /\ cpc' = "fatal"
    /\ UNCHANGED <<lpc, consumer, t, polls, polled, printed>>
    /\ BridgeIdle

\* The steps KafkaConsume itself can take.
KafkaConsume == SubscribeTopics \/ Receive

kafkaconsumeLoop == PollMessage \/ PollNothing \/ PollError

ConsumerNext ==
    \/ NewKafkaConsumer
    \/ KafkaConsume
    \/ kafkaconsumeLoop
    \/ GoDeadlock

ConsumerSpec == Init /\ [][ConsumerNext]_vars

(***************************************************************************)
(* The codec along the pipeline: one record, encoded by the simulator's    *)
(* conn.WriteJSON(t), decoded by the bridge's c.ReadJSON(&recv), encoded   *)
(* again by json.Marshal(recv), decoded by the consumer's                  *)
(* json.Unmarshal(e.Value, &t).  Both decoders write into a struct that    *)
(* may hold an earlier record.                                             *)
(***************************************************************************)
\* valid records: the corners of the ranges and points inside
Records ==
    {SourceCoords(o, la, lo) :
        o \in {0, 1, 7}, la \in {-90, 0, 45, 90}, lo \in {-180, 0, 20, 180}}

\* what recv and t may hold from the message before
Earlier == {ZeroCoords, SourceCoords(9, 33, 66)}

CodecInit ==
    /\ build \in Builds
    /\ BridgeInit
    /\ faults = 0
    /\ ConsumerIdle
    /\ SimulatorIdle
    /\ MainServing
    /\ \E r \in Records, p1 \in Earlier, p2 \in Earlier :
        roundTrip = [pc |-> "write", rec |-> r, frame |-> Invalid,
                     recv |-> p1, resp |-> Invalid, t |-> p2, err |-> "none"]

CodecIdle == UNCHANGED <<build, faults, bridgeVars, consumerVars, simVars, mainVars>>

\* simulator: conn.WriteJSON(t)
EncodeAtClient ==
    /\ roundTrip.pc = "write"
    /\ roundTrip' = [roundTrip EXCEPT !.frame = Marshal(roundTrip.rec),
                                      !.pc = "read"]
    /\ CodecIdle

\* bridge: err := c.ReadJSON(&recv); break on error
DecodeAtBridge ==
    /\ roundTrip.pc = "read"
    /\ LET r == Unmarshal(roundTrip.recv, roundTrip.frame)
       IN roundTrip' = [roundTrip EXCEPT
                            !.recv = r.val,
                            !.err = r.err,
                            !.pc = IF r.err = "none" THEN "marshal" ELSE "failed"]
    /\ CodecIdle

\* bridge: resp, err := json.Marshal(recv)
EncodeAtBridge ==
    /\ roundTrip.pc = "marshal"
    /\ roundTrip' = [roundTrip EXCEPT !.resp = Marshal(roundTrip.recv),
                                      !.pc = "unmarshal"]
    /\ CodecIdle

\* consumer: err := json.Unmarshal(e.Value, &t)
DecodeAtConsumer ==
    /\ roundTrip.pc = "unmarshal"
    /\ LET r == Unmarshal(roundTrip.t, roundTrip.resp)
       IN roundTrip' = [roundTrip EXCEPT
                            !.t = r.val,
                            !.err = r.err,
                            !.pc = IF r.err = "none" THEN "done" ELSE "failed"]
    /\ CodecIdle

CodecNext ==
    \/ EncodeAtClient
    \/ DecodeAtBridge
    \/ EncodeAtBridge
    \/ DecodeAtConsumer

CodecSpec == CodecInit /\ [][CodecNext]_vars

(***************************************************************************)
(* The simulator (producer): main dials the bridge and then, once a        *)
(* second, generates a record and writes it with conn.WriteJSON.           *)
(***************************************************************************)
SimulatorInit ==
    /\ build \in Builds
    /\ BridgeInit
    /\ faults = 0
    /\ ConsumerIdle
    /\ RoundTripIdle
    /\ MainServing
    /\ simpc = "dial"
    /\ simconn = "nil"
    /\ simt = ZeroCoords
    /\ simsent = <<>>
    /\ simerrs = 0
    /\ simiters = 0

SimulatorAlone == UNCHANGED <<build, faults, bridgeVars, consumerVars, codecVars, mainVars>>

\* conn, _, err := websocket.DefaultDialer.Dial(wsEndpoint, nil).  On failure
\* conn is nil; the documented main ends the process with log.Fatalf, the
\* legacy main logs and goes on into the loop.
Dial ==
    /\ simpc = "dial"
    /\ \E ok \in BOOLEAN :
        IF ok
        THEN /\ simconn' = "open"
             /\ simpc' = "generate"
        ELSE /\ simconn' = "nil"
             /\ simpc' = IF build = "documented" THEN "exited" ELSE "generate"
    /\ UNCHANGED <<simt, simsent, simerrs, simiters>>
    /\ SimulatorAlone

\* a, b, c := MiddlewareReceiver(retOBUdata); t := types.SourceCoords{...};
\* time.Sleep(time.Second)
Generate ==
    /\ simpc = "generate"
    /\ simiters < MaxSends
    /\ simiters' = simiters + 1
    /\ \E v \in retOBUdata : simt' = v
    /\ simpc' = "send"
    /\ UNCHANGED <<simconn, simsent, simerrs>>
    /\ SimulatorAlone

ExitOnWriteError == "exited"

\* Where the loop stands after a WriteJSON that returned an error: the error
\* is logged and the for loop goes round.
AfterWriteError == "generate"

\* err = conn.WriteJSON(t); if err != nil { log }.  On a nil conn the call
\* panics.  A write error is kept by the connection: every later write fails.
WriteJSON ==
    /\ simpc = "send"
    /\ IF simconn = "nil"
       THEN /\ simpc' = "panicked"
            /\ UNCHANGED <<simconn, simsent, simerrs>>
       ELSE \E ok \in BOOLEAN :
            /\ ok => simconn = "open"
            /\ IF ok
               THEN /\ simsent' = Append(simsent, Marshal(simt))
                    /\ simpc' = "generate"
                    /\ UNCHANGED <<simconn, simerrs>>
               ELSE /\ simerrs' = simerrs + 1
                    /\ simconn' = "broken"
                    /\ simpc' = AfterWriteError
                    /\ simsent' = simsent
    /\ UNCHANGED <<simt, simiters>>
    /\ SimulatorAlone

SimulatorNext ==
    \/ Dial
    \/ Generate
    \/ WriteJSON

SimulatorSpec == SimulatorInit /\ [][SimulatorNext]_vars

(***************************************************************************)
(* The bridge's main: the addr flag, flag.Parse and ListenAndServe.  A     *)
(* command-line argument is a record: -name=val and -name are flags, the   *)
(* rest are words.  A string value is kept as the word that spells it.     *)
(***************************************************************************)
Word(h) == [kind |-> "word", name |-> h, val |-> h]
FlagEq(n, h) == [kind |-> "flag", name |-> n, val |-> h]
FlagBare(n) == [kind |-> "flag", name |-> n, val |-> ""]

Hosts == {"localhost:8080", ":9000"}

Tokens ==
    {FlagEq("addr", h) : h \in Hosts} \cup {Word(h) : h \in Hosts}
        \cup {FlagBare("addr"), FlagBare("v")}

ArgLists == UNION {[1..n -> Tokens] : n \in 0..MaxArgs}

NotListening == Word("")

\* flag.Parse over the arguments as, with a the flag's value so far: parsing
\* stops at the first word; a flag that is not defined, or -addr as the last
\* argument, is an error (the flag set is ExitOnError); -addr=h sets h; -addr
\* followed by another argument sets that argument, whatever it is.
RECURSIVE flagParse(_, _)
flagParse(as, a) ==
    IF as = <<>> THEN [ok |-> TRUE, addr |-> a]
    ELSE LET x == Head(as)
         IN IF x.kind = "word" THEN [ok |-> TRUE, addr |-> a]
            ELSE IF x.name # "addr" THEN [ok |-> FALSE, addr |-> a]
            ELSE IF x.val # "" THEN flagParse(Tail(as), Word(x.val))
            ELSE IF Len(as) = 1 THEN [ok |-> FALSE, addr |-> a]
            ELSE flagParse(Tail(Tail(as)), as[2])

StartupInit ==
    /\ build \in Builds
    /\ BridgeInit
    /\ faults = 0
    /\ ConsumerIdle
    /\ RoundTripIdle
    /\ SimulatorIdle
    /\ args \in ArgLists
    /\ addr = DefaultAddr
    /\ mainpc = "start"
    /\ listening = NotListening

MainAlone == UNCHANGED <<build, faults, bridgeVars, consumerVars, codecVars, simVars>>

\* main, documented: flag.Parse().  The legacy main has no such line.
FlagParse ==
    /\ mainpc = "start"
    /\ build = "documented"
    /\ LET r == flagParse(args, addr)
       IN /\ addr' = r.addr
          /\ mainpc' = IF r.ok THEN "parsed" ELSE "exited"
    /\ UNCHANGED <<args, listening>>
    /\ MainAlone

\* main: log.Fatal(http.ListenAndServe(*addr, nil)): the server listens on
\* *addr, or the call returns an error and the process exits.
ListenAndServe ==
    /\ mainpc = IF build = "documented" THEN "parsed" ELSE "start"
    /\ \E ok \in BOOLEAN :
        IF ok
        THEN /\ listening' = addr
             /\ mainpc' = "serving"
        ELSE /\ listening' = listening
             /\ mainpc' = "exited"
    /\ UNCHANGED <<args, addr>>
    /\ MainAlone

StartupNext ==
    \/ FlagParse
    \/ ListenAndServe

StartupSpec == StartupInit /\ [][StartupNext]_vars

(***************************************************************************)
(* Vocabulary of the claims.                                               *)
(***************************************************************************)
Active == {"newprod", "read", "produce", "flush"}
Ended == {"returned", "panicked"}

HasKey(frame, k) ==
    \E i \in 1..Len(frame.members) :
        frame.members[i][1] = k /\ frame.members[i][2] = "num"

Undecodable(frame) == frame.json = "invalid" \/ TypeError(frame.members)

\* every field of the record is in the frame, rightly typed
Complete(frame) ==
    /\ ~Undecodable(frame)
    /\ \A k \in KnownKeys : HasKey(frame, k)

\* the record a complete frame or a payload spells out
FieldsOf(frame) == StoreMembers(ZeroCoords, frame.members)

InRange(v) == v.Lat \in -90..90 /\ v.Lon \in -180..180

\* everything session r owns
SessionState(r) ==
    <<pc[r], conn[r], peer[r], sent[r], nread[r], recv[r], resp[r], prod[r],
      queue[r], remaining[r], attempts[r], stdout[r]>>

(***************************************************************************)
(* C1.  A session hands its records to Produce in the order it read them:  *)
(* the i-th payload handed to Produce is the encoding of the i-th frame    *)
(* the client wrote, and the session is never more than one read ahead of  *)
(* its publish attempts, whatever the other session does.                  *)
(***************************************************************************)
C1_PublishInReadOrder ==
    \A s \in Sessions :
        /\ Len(attempts[s]) <= nread[s]
        /\ nread[s] <= Len(attempts[s]) + 1
        /\ \A i \in 1..Len(attempts[s]) :
               Complete(sent[s][i]) =>
                   attempts[s][i] = Marshal(FieldsOf(sent[s][i]))

C1_Witness ==
    \E s, r \in Sessions :
        /\ s # r
        /\ pc[r] \in Active
        /\ Len(attempts[s]) = 2
        /\ Complete(sent[s][1]) /\ Complete(sent[s][2])
        /\ sent[s][1] # sent[s][2]

(***************************************************************************)
(* C2.  After a frame that fails to decode (invalid JSON or a wrongly      *)
(* typed field) the session is still active and its connection still open. *)
(***************************************************************************)
C2_DecodeFailureKeepsSession ==
    \A s \in Sessions :
        (nread[s] > 0 /\ Undecodable(sent[s][nread[s]])) =>
            (pc[s] \in Active /\ conn[s] = "open")

(***************************************************************************)
(* C3.  Every payload a session has handed to Produce carries a latitude   *)
(* in [-90, 90] and a longitude in [-180, 180].                            *)
(***************************************************************************)
C3_PublishedInRange ==
    \A s \in Sessions : \A i \in 1..Len(attempts[s]) :
        InRange(FieldsOf(attempts[s][i]))

(***************************************************************************)
(* C4.  No payload is handed to Produce for a frame that lacks one of the  *)
(* fields obuid, lat, lon.                                                 *)
(***************************************************************************)
C4_MissingFieldRejected ==
    \A s \in Sessions : \A i \in 1..Len(attempts[s]) :
        \A k \in KnownKeys : HasKey(sent[s][i], k)

(***************************************************************************)
(* C5.  As claimed: outside KafkaWrite (at the read, or about to hand the  *)
(* next record to Produce) the session's producer holds no undelivered     *)
(* message.                                                                *)
(***************************************************************************)
C5_NothingQueuedAfterWrite ==
    \A s \in Sessions :
        pc[s] \in {"read", "produce"} => Outstanding(s) = 0

(***************************************************************************)
(* C5, amended.  KafkaWrite returns only after Flush has returned, and     *)
(* outside KafkaWrite the producer holds at most the messages the last     *)
(* Flush reported as remaining: none if it drained the queue, some only if *)
(* its 15 s timeout expired.                                               *)
(***************************************************************************)
C5_QueuedOnlyAfterFlushTimeout ==
    \A s \in Sessions :
        pc[s] # "flush" => Outstanding(s) <= remaining[s]

C5_Witness ==
    \E s \in Sessions :
        /\ pc[s] = "produce"
        /\ Len(attempts[s]) = 1
        /\ Outstanding(s) = 1
        /\ remaining[s] = 1

(***************************************************************************)
(* C6.  Every record handed to Produce is accounted for: it is still held  *)
(* by the producer, or its delivery was printed, or its failure was        *)
(* printed.                                                                *)
(***************************************************************************)
C6_EveryRecordAccounted ==
    \A s \in Sessions :
        Len(attempts[s]) =
            Len(queue[s]) + stdout[s].delivered + stdout[s].failed

(***************************************************************************)
(* C7.  A step in which a session fails (it ends, or a fault hits it)      *)
(* leaves the process serving and changes nothing of any other session.    *)
(***************************************************************************)
FailureStep(s) ==
    \/ pc[s] \notin Ended /\ pc'[s] \in Ended
    \/ faults' > faults /\ SessionState(s)' # SessionState(s)

C7_FailureIsolated ==
    [][\A s \in Sessions :
          FailureStep(s) =>
              /\ serverUp'
              /\ \A r \in Sessions \ {s} : SessionState(r)' = SessionState(r)]_vars

C7_Witness ==
    \E s, r \in Sessions :
        /\ s # r
        /\ serverUp
        /\ pc[s] = "returned"
        /\ nread[s] > 0 /\ Undecodable(sent[s][nread[s]])
        /\ pc[r] = "flush"
        /\ Len(attempts[r]) = 1

(***************************************************************************)
(* C8.  A session that has ended, by return or by panic, has no open       *)
(* connection; and a session whose peer has closed ends.                   *)
(***************************************************************************)
C8_ClosedAndTerminates ==
    /\ [](\A s \in Sessions : pc[s] \in Ended => conn[s] # "open")
    /\ \A s \in Sessions :
           (peer[s] = "closed" /\ pc[s] # "none") ~> (pc[s] \in Ended)

\* the session ended on the peer's close, after it published a record
C8_Witness ==
    /\ pc[Alone] = "returned"
    /\ conn[Alone] = "closed"
    /\ faults = 0
    /\ nread[Alone] = Len(attempts[Alone])
    /\ Len(attempts[Alone]) > 0

(***************************************************************************)
(* C9.  There are never more live producers (each with its report          *)
(* goroutine) than active sessions.                                        *)
(***************************************************************************)
C9_ProducersBoundedBySessions ==
    Cardinality({s \in Sessions : prod[s] = "live"})
        <= Cardinality({s \in Sessions : pc[s] \in Active})

(***************************************************************************)
(* C10.  Once the poll loop has ended on a Kafka error and closed the      *)
(* consumer, KafkaConsume has returned or can still take a step.           *)
(***************************************************************************)
C10_ConsumeReturnsAfterLoopExit ==
    (lpc = "exited" /\ consumer = "closed") =>
        (cpc = "returned" \/ ENABLED KafkaConsume)

(***************************************************************************)
(* C11.  The consumer prints one record for each polled message that       *)
(* unmarshalled without error and none for a message that did not: the     *)
(* records printed, with the one waiting on msgChan, are as many as the    *)
(* polled messages that decoded.                                           *)
(***************************************************************************)
C11_UndecodableIsSkipped ==
    Len(printed) + (IF lpc = "send" THEN 1 ELSE 0) =
        Cardinality({i \in 1..Len(polled) : ~Undecodable(polled[i])})

(***************************************************************************)
(* C12.  Round trip: a valid record that was encoded decodes to itself,    *)
(* at the bridge and again at the consumer, without error and whatever the *)
(* struct decoded into held before.                                        *)
(***************************************************************************)
C12_RoundTrip ==
    /\ roundTrip.pc # "failed"
    /\ roundTrip.pc \in {"marshal", "unmarshal", "done"} =>
          roundTrip.recv = roundTrip.rec
    /\ roundTrip.pc = "done" =>
          (roundTrip.t = roundTrip.rec /\ roundTrip.err = "none")

C12_Witness ==
    /\ roundTrip.pc = "done"
    /\ roundTrip.rec = SourceCoords(7, -90, 180)
    /\ roundTrip.t = roundTrip.rec

(***************************************************************************)
(* C13.  Sessions share no mutable state.  The payloads a session has      *)
(* handed to Produce are a function of the frames of its own connection:   *)
(* the fold of decode-into-recv and encode over them, starting from a zero *)
(* recv.  And no step changes the state of two sessions.                   *)
(***************************************************************************)
RECURSIVE OwnPayloads(_, _, _)
OwnPayloads(frames, v, n) ==
    IF n = 0 \/ frames = <<>> THEN <<>>
    ELSE LET r == Unmarshal(v, Head(frames))
         IN IF r.err # "none" THEN <<>>
            ELSE <<Marshal(r.val)>> \o OwnPayloads(Tail(frames), r.val, n - 1)

C13_NoSharedState ==
    /\ [](\A s \in Sessions :
            attempts[s] = OwnPayloads(sent[s], ZeroCoords, Len(attempts[s])))
    /\ [][Cardinality({s \in Sessions : SessionState(s)' # SessionState(s)}) <= 1]_vars

\* both sessions have published, one of them a frame that leaves obuid to
\* whatever its recv held, while the other's recv holds another obuid
C13_Witness ==
    \E s, r \in Sessions :
        /\ s # r
        /\ Len(attempts[r]) = 1
        /\ recv[r].OBUID # 0
        /\ pc[r] \in Active
        /\ Len(attempts[s]) = 1
        /\ sent[s][1] = FramePartial
        /\ attempts[s][1] = Marshal(SourceCoords(0, 60, 30))

(***************************************************************************)
(* C14.  While a session waits in Flush for a message still queued and its *)
(* peer has closed the connection, the session can leave the wait by a     *)
(* step that is neither the completion of the flush nor its timeout.       *)
(***************************************************************************)
C14_CloseUnblocksFlush ==
    \A s \in Sessions :
        (pc[s] = "flush" /\ Outstanding(s) > 0 /\ peer[s] = "closed") =>
            ENABLED (/\ ReadMessageLoop(s)
                     /\ ~KafkaWriteFlushed(s)
                     /\ ~KafkaWriteTimeout(s))

(***************************************************************************)
(* C15.  A request whose upgrade failed (the handler has run and c is nil) *)
(* has made ReceiveWs return at once: no loop was started on the nil       *)
(* connection and no producer was created for it.                          *)
(***************************************************************************)
C15_UpgradeFailureReturns ==
    \A s \in Sessions :
        (pc[s] # "none" /\ conn[s] = "nil") =>
            (pc[s] = "returned" /\ prod[s] = "none")

(***************************************************************************)
(* C16.  A session whose NewKafkaProducer failed (k is nil) has returned   *)
(* with its connection closed and has read no message, so that no          *)
(* KafkaWrite is ever about to run on the nil producer.                    *)
(***************************************************************************)
C16_ProducerFailureReturns ==
    \A s \in Sessions :
        prod[s] = "nil" =>
            /\ pc[s] = "returned"
            /\ conn[s] # "open"
            /\ nread[s] = 0

(***************************************************************************)
(* C17.  Every record whose delivery report carried an error has been      *)
(* handed to a dead-letter sink, once.                                     *)
(***************************************************************************)
C17_FailedGoesToDeadLetter ==
    \A s \in Sessions : DeadLettered(s) = stdout[s].failed

(***************************************************************************)
(* C18.  In the simulator a WriteJSON that returns an error is logged and  *)
(* the loop goes round to generate the next record; the program never ends *)
(* after a send error.                                                     *)
(***************************************************************************)
C18_WriteErrorContinues ==
    /\ [](simpc \in {"exited", "panicked"} => simerrs = 0)
    /\ [][simerrs' > simerrs => simpc' = "generate"]_vars

\* after two failed writes the loop is attempting the third
C18_Witness == simerrs = 2 /\ simpc = "send" /\ simiters = 3

(***************************************************************************)
(* C19.  In the simulator, when the dial has failed (conn is nil) the      *)
(* program has exited: it is not in the generate/send loop.                *)
(***************************************************************************)
C19_DialFailureExits ==
    (simpc # "dial" /\ simconn = "nil") => simpc = "exited"

(***************************************************************************)
(* C20.  A serving bridge listens on the address its command line gives    *)
(* with -addr, and on the default localhost:30000 when it gives none.      *)
(***************************************************************************)
C20_ListensOnFlagAddr ==
    mainpc = "serving" => listening = flagParse(args, DefaultAddr).addr

(***************************************************************************)
(* C21.  One Produce per message read: the payloads a session has handed   *)
(* to Produce, with the record it has read and is about to hand over, are  *)
(* as many as the frames ReadJSON has returned without error, so that no   *)
(* message is skipped or published twice and at most one is in hand.       *)
(***************************************************************************)
C21_OneProducePerRead ==
    \A s \in Sessions :
        Len(attempts[s]) + (IF pc[s] = "produce" THEN 1 ELSE 0) =
            Cardinality({i \in 1..nread[s] : ~Undecodable(sent[s][i])})

(***************************************************************************)
(* C22.  The records of the messages that unmarshalled without error reach *)
(* the printing loop in poll order, each once: they are, but for the one   *)
(* waiting on msgChan, a subsequence of what was printed, and no more was  *)
(* printed than was polled.  While a record waits on msgChan the loop does *)
(* not poll.                                                               *)
(***************************************************************************)
\* t after each message of ms that unmarshals without error, v being t before
RECURSIVE DecodedRecords(_, _)
DecodedRecords(ms, v) ==
    IF ms = <<>> THEN <<>>
    ELSE LET r == Unmarshal(v, Head(ms))
         IN (IF r.err = "none" THEN <<r.val>> ELSE <<>>)
                \o DecodedRecords(Tail(ms), r.val)

RECURSIVE IsSubseq(_, _)
IsSubseq(a, b) ==
    IF a = <<>> THEN TRUE
    ELSE IF b = <<>> THEN FALSE
    ELSE IF Head(a) = Head(b) THEN IsSubseq(Tail(a), Tail(b))
    ELSE IsSubseq(a, Tail(b))

\* the decoded records that must have been received by now
DueRecords ==
    LET d == DecodedRecords(polled, ZeroCoords)
    IN IF lpc = "send" /\ ~Undecodable(polled[Len(polled)])
       THEN SubSeq(d, 1, Len(d) - 1)
       ELSE d

C22_HandoffInPollOrder ==
    /\ [](IsSubseq(DueRecords, printed))
    /\ [](Len(printed) + (IF lpc = "send" THEN 1 ELSE 0) <= Len(polled))
    /\ [][lpc = "send" => (polled' = polled /\ polls' = polls)]_vars

\* two decoded records were printed in order and the third waits on msgChan
C22_Witness ==
    /\ lpc = "send"
    /\ Len(polled) = 3
    /\ \A i \in 1..3 : ~Undecodable(polled[i])
    /\ polled[1] # polled[2]
    /\ printed = SubSeq(DecodedRecords(polled, ZeroCoords), 1, 2)

(***************************************************************************)
(* C23.  Each payload the bridge hands to Produce is determined by the     *)
(* frame it was read from alone: it is the encoding of that frame decoded  *)
(* into a zero record.                                                     *)
(***************************************************************************)
C23_NoStaleFields ==
    \A s \in Sessions :
        \A i \in 1..Len(attempts[s]) :
            attempts[s][i] = Marshal(FieldsOf(sent[s][i]))

(***************************************************************************)
(* C24.  A kafka.Error ends the poll loop, and the loop never returns      *)
(* without closing the consumer: the consumer is closed exactly when the   *)
(* loop has returned, by the step that ends the loop, and once it is       *)
(* closed it stays closed, nothing more is polled and nothing more is      *)
(* sent on msgChan.                                                        *)
(***************************************************************************)
C24_ClosedOnLoopExit ==
    /\ [](lpc = "exited" <=> consumer = "closed")
    /\ [][PollError => (lpc' = "exited" /\ consumer' = "closed")]_vars
    /\ [][consumer = "closed" =>
            /\ consumer' = "closed"
            /\ lpc' = "exited"
            /\ polls' = polls
            /\ polled' = polled
            /\ printed' = printed]_vars

\* the loop consumed and handed over a record, then met a kafka.Error, and
\* main has gone on since
C24_Witness ==
    /\ lpc = "exited"
    /\ consumer = "closed"
    /\ Len(printed) > 0
    /\ cpc = "fatal"

====
